---- MODULE Spec2Model ----
(***************************************************************************)
(* Set-of-marks page annotation (voyager/scripts/browser-annotate.js) and  *)
(* its cleanup scripts (clearRectsAndTags, clearElements).                 *)
(*                                                                         *)
(* doc is the live DOM: a sequence of element nodes in document order,     *)
(* each with its tag name, attributes, parent, the CSS facts that the      *)
(* scripts write or the hit test reads, and its layout boxes.  Lengths are *)
(* CSS pixels; points are kept doubled (x2 = 2*x) so that a rectangle's    *)
(* center left + width/2 stays an integer.  Attribute values are strings   *)
(* (setAttribute writes String(index)).  The candidate's `text` field      *)
(* (lines 70-73) is read by no operation and is left out.                  *)
(***************************************************************************)
EXTENDS Integers, Sequences, FiniteSets, TLC

VARIABLES
    doc,       \* the document: its element nodes in document order
    scrollY,   \* how far the window is scrolled down
    lastOp,    \* the script or page event that produced this state
    again,     \* a cleanup script ran right after the same cleanup script
    scanned,   \* markPage's items after the scan (line 77)
    items,     \* markPage's items when it returned
    ret        \* markPage's return value

vars == <<doc, scrollY, lastOp, again, scanned, items, ret>>

(* ------------------------------ constants ------------------------------ *)

MAX_ELEMENTS == 60
MIN_AREA == 20
LABEL_FONT_SIZE == 16
LABEL_PADDING == 3
labelHeight == 20
OverlayZIndex == 2147483647

ELEMENT_INDEX == "data-voyager-element-index"
RECT_INDEX == "data-voyager-rect-index"
MISSPELLED_ELEMENT_INDEX == "date-voyager-element-index"

InteractiveTags == {"INPUT", "TEXTAREA", "SELECT", "BUTTON", "A", "IFRAME", "VIDEO"}
InteractiveRoles == {"button", "link", "checkbox", "menuitem", "tab"}

(* -------------------------------- bounds ------------------------------- *)

\* viewport of the host window
ViewportWidth == 100
ViewportHeight == 80
\* the window is at the top of the page or one scroll step down
ScrollStep == 7
\* free elements of a small page
NumSmall == 2
\* a dense page has MAX_ELEMENTS to MAX_ELEMENTS + CapExtra top-level buttons
CapExtra == 1
\* and up to MaxDeep buttons inside its section
MaxDeep == 1
\* overlay containers that may be left in the page when mark-page runs again
MaxStaleOverlays == 1

(* --------------------------- the DOM, as data -------------------------- *)

NoAttrs == << >>

\* z-index: auto; a declared z-index n is << n >>
ZAuto == << >>

Box(l, t, w, h) == [left |-> l, top |-> t, width |-> w, height |-> h]

Node(tag, attrs, parent, position, pointerEvents, zIndex, boxes) ==
    [tagName |-> tag, attrs |-> attrs, parent |-> parent, position |-> position,
     pointerEvents |-> pointerEvents, zIndex |-> zIndex, boxes |-> boxes]

HasAttribute(n, name) == name \in DOMAIN n.attrs

SetAttribute(n, name, value) ==
    [n EXCEPT !.attrs = [a \in (DOMAIN n.attrs) \cup {name} |->
                            IF a = name THEN value ELSE n.attrs[a]]]

RemoveAttribute(n, name) ==
    [n EXCEPT !.attrs = [a \in (DOMAIN n.attrs) \ {name} |-> n.attrs[a]]]

\* a.contains(b); b = 0 is null
RECURSIVE NodeContains(_, _, _)
NodeContains(d, a, b) ==
    IF b = 0 THEN FALSE
    ELSE IF a = b THEN TRUE
    ELSE NodeContains(d, a, d[b].parent)

\* document.querySelectorAll("[name]"), in document order
QuerySelectorAllAttr(d, name) ==
    LET Test(i) == HasAttribute(d[i], name)
    IN  SelectSeq([i \in 1..Len(d) |-> i], Test)

\* an element is laid out against the viewport when it, or an ancestor, is
\* position: fixed (the absolutely positioned label inside a fixed overlay)
RECURSIVE ViewportAnchored(_, _)
ViewportAnchored(d, i) ==
    IF i = 0 THEN FALSE
    ELSE IF d[i].position = "fixed" THEN TRUE
    ELSE ViewportAnchored(d, d[i].parent)

\* pointer-events is an inherited property whose initial value is auto
RECURSIVE ComputedPointerEvents(_, _)
ComputedPointerEvents(d, i) ==
    IF i = 0 THEN "auto"
    ELSE IF d[i].pointerEvents # "inherit" THEN d[i].pointerEvents
    ELSE ComputedPointerEvents(d, d[i].parent)

\* the z-index of the stacking context an element paints in
RECURSIVE StackLevel(_, _)
StackLevel(d, i) ==
    IF i = 0 THEN 0
    ELSE IF d[i].zIndex # ZAuto THEN d[i].zIndex[1]
    ELSE StackLevel(d, d[i].parent)

\* element.getClientRects(): the boxes relative to the viewport
GetClientRects(d, sy, i) ==
    LET dy == IF ViewportAnchored(d, i) THEN 0 ELSE sy
    IN  [k \in 1..Len(d[i].boxes) |->
            LET b == d[i].boxes[k]
            IN  [left |-> b.left, top |-> b.top - dy,
                 width |-> b.width, height |-> b.height,
                 right |-> b.left + b.width, bottom |-> b.top - dy + b.height]]

\* the hit test at the doubled point (x2, y2) lands on element i: the point
\* is in one of its boxes and the element takes pointer events
HitBy(d, sy, i, x2, y2) ==
    /\ \E k \in 1..Len(d[i].boxes) :
          LET b == d[i].boxes[k]
          IN  /\ 2 * b.left <= x2 /\ x2 < 2 * (b.left + b.width)
              /\ LET top == IF ViewportAnchored(d, i) THEN b.top ELSE b.top - sy
                 IN  2 * top <= y2 /\ y2 < 2 * (top + b.height)
    /\ ComputedPointerEvents(d, i) # "none"

\* document.elementFromPoint: the topmost element at a viewport point, null
\* outside the viewport; later in the document paints over earlier
ElementFromPoint(d, sy, x2, y2) ==
    IF x2 < 0 \/ y2 < 0 \/ x2 >= 2 * ViewportWidth \/ y2 >= 2 * ViewportHeight
    THEN 0
    ELSE LET hit == {i \in 1..Len(d) : HitBy(d, sy, i, x2, y2)}
         IN  IF hit = {} THEN 0
             ELSE CHOOSE i \in hit : \A j \in hit :
                     \/ StackLevel(d, j) < StackLevel(d, i)
                     \/ StackLevel(d, j) = StackLevel(d, i) /\ j <= i

(* ------------------------------ markPage ------------------------------- *)

Max(a, b) == IF a >= b THEN a ELSE b
Min(a, b) == IF a <= b THEN a ELSE b

vw == ViewportWidth
vh == ViewportHeight

isInteractive(n) ==
    \/ n.tagName \in InteractiveTags
    \/ HasAttribute(n, "role") /\ n.attrs["role"] \in InteractiveRoles

\* mutant of CenterOnElement: any element at the center will do
CenterOnAnyElement(d, sy, i, bb) ==
    ElementFromPoint(d, sy, 2 * bb.left + bb.width, 2 * bb.top + bb.height) # 0

\* lines 38-43: the rectangle's center is on the element or inside it
CenterOnElement(d, sy, i, bb) ==
    LET elAtCenter == ElementFromPoint(d, sy, 2 * bb.left + bb.width,
                                       2 * bb.top + bb.height)
    IN  elAtCenter = i \/ NodeContains(d, i, elAtCenter)

\* lines 44-54: clip to the viewport
ClipRect(bb) ==
    LET l == Max(0, bb.left)
        t == Max(0, bb.top)
        r == Min(vw, bb.right)
        b == Min(vh, bb.bottom)
    IN  [left |-> l, top |-> t, right |-> r, bottom |-> b,
         width |-> r - l, height |-> b - t]

\* line 55
NonEmptyRect(rect) == rect.width > 0 /\ rect.height > 0

\* lines 37-55
VisibleRects(d, sy, i) ==
    LET bbs == GetClientRects(d, sy, i)
        Unoccluded(bb) == CenterOnElement(d, sy, i, bb)
        kept == SelectSeq(bbs, Unoccluded)
        clipped == [k \in 1..Len(kept) |-> ClipRect(kept[k])]
    IN  SelectSeq(clipped, NonEmptyRect)

\* lines 59-62
RECURSIVE TotalArea(_)
TotalArea(rects) ==
    IF rects = << >> THEN 0
    ELSE TotalArea(SubSeq(rects, 1, Len(rects) - 1))
         + rects[Len(rects)].width * rects[Len(rects)].height

\* mutant of LargeEnough: the comparison turned around
NotLargerThanFloor(area) == ~(area > MIN_AREA)

\* line 64: candidates below the floor are dropped
LargeEnough(area) == ~(area < MIN_AREA)

RECURSIVE getDepth(_, _)
getDepth(d, i) == IF d[i].parent = 0 THEN 0 ELSE 1 + getDepth(d, d[i].parent)

\* lines 19-76: the one-element sequence of the candidate, or the empty one
Resolve(d, sy, i) ==
    IF ~isInteractive(d[i]) THEN << >>
    ELSE LET rects == VisibleRects(d, sy, i)
         IN  IF Len(rects) = 0 THEN << >>
             ELSE IF ~LargeEnough(TotalArea(rects)) THEN << >>
             ELSE << [element |-> i, rects |-> rects, area |-> TotalArea(rects),
                      depth |-> getDepth(d, i)] >>

\* lines 18-77: map every element, in document order, then filter(Boolean)
Scan(d, sy) ==
    LET mapped == [i \in 1..Len(d) |-> Resolve(d, sy, i)]
        NotNull(m) == m # << >>
        kept == SelectSeq(mapped, NotNull)
    IN  [k \in 1..Len(kept) |-> kept[k][1]]

\* mutant of RemoveNested: contains() asked the other way round
RemoveNesting(d, its) ==
    LET Innermost(x) ==
            ~\E k \in 1..Len(its) :
                /\ NodeContains(d, x.element, its[k].element)
                /\ x.element # its[k].element
    IN  SelectSeq(its, Innermost)

\* lines 80-85
RemoveNested(d, its) ==
    LET Outermost(x) ==
            ~\E k \in 1..Len(its) :
                /\ NodeContains(d, its[k].element, x.element)
                /\ x.element # its[k].element
    IN  SelectSeq(its, Outermost)

\* mutant of Compare: smaller area first
CompareSmallerFirst(a, b) ==
    IF a.depth # b.depth THEN a.depth - b.depth ELSE a.area - b.area

\* lines 89-94
Compare(a, b) == IF a.depth # b.depth THEN a.depth - b.depth ELSE b.area - a.area

\* Array.prototype.sort with this comparator: the sort is stable, so an item
\* comes after exactly the items that compare lower and the earlier items
\* that compare equal
SortItems(s) ==
    LET Before(j, k) == LET c == Compare(s[j], s[k])
                        IN  c < 0 \/ (c = 0 /\ j < k)
        rank == [k \in 1..Len(s) |-> 1 + Cardinality({j \in 1..Len(s) : Before(j, k)})]
    IN  [r \in 1..Len(s) |-> s[CHOOSE k \in 1..Len(s) : rank[k] = r]]

\* lines 88-96
Prioritize(its) ==
    IF Len(its) > MAX_ELEMENTS
    THEN SubSeq(SortItems(its), 1, MAX_ELEMENTS)
    ELSE its

\* document.body
Body(d) == CHOOSE i \in 1..Len(d) : d[i].tagName = "BODY"

\* mutant of Container: the rectangle index counted from one
ContainerCountedFromOne(body, bbox, index) ==
    SetAttribute(
        Node("DIV", NoAttrs, body, "fixed", "none", << OverlayZIndex >>,
             << Box(bbox.left, bbox.top, bbox.width, bbox.height) >>),
        RECT_INDEX, ToString(index + 1))

\* mutant of Container: the pointer-events declaration left out
ContainerTakingPointerEvents(body, bbox, index) ==
    SetAttribute(
        Node("DIV", NoAttrs, body, "fixed", "inherit", << OverlayZIndex >>,
             << Box(bbox.left, bbox.top, bbox.width, bbox.height) >>),
        RECT_INDEX, ToString(index))

\* lines 104-115 and 150
Container(body, bbox, index) ==
    SetAttribute(
        Node("DIV", NoAttrs, body, "fixed", "none", << OverlayZIndex >>,
             << Box(bbox.left, bbox.top, bbox.width, bbox.height) >>),
        RECT_INDEX, ToString(index))

\* lines 125-131
LabelTop(bbox) == IF bbox.top < labelHeight THEN bbox.height + 2 ELSE 0 - labelHeight

\* lines 117-149: the label's box hangs off the container's corner; its size
\* is one line of the label font plus the padding
Label(bbox, index, container) ==
    Node("SPAN", NoAttrs, container, "absolute", "inherit", ZAuto,
         << Box(bbox.left + 0, bbox.top + LabelTop(bbox),
                LABEL_FONT_SIZE + 2 * LABEL_PADDING,
                LABEL_FONT_SIZE + 2 * LABEL_PADDING) >>)

\* the (index, bbox) pairs of the items lo..hi, in the order the two nested
\* forEach visit them
RECURSIVE RectPairs(_, _, _)
RectPairs(its, lo, hi) ==
    IF lo > hi THEN << >>
    ELSE IF lo = hi
    THEN [j \in 1..Len(its[lo].rects) |-> [index |-> lo - 1, bbox |-> its[lo].rects[j]]]
    ELSE RectPairs(its, lo, (lo + hi) \div 2) \o RectPairs(its, (lo + hi) \div 2 + 1, hi)

\* lines 103-153: one container and its label per pair, appended to the body
AppendOverlays(d, its) ==
    LET pairs == RectPairs(its, 1, Len(its))
        body == Body(d)
    IN  d \o [m \in 1..(2 * Len(pairs)) |->
                IF m % 2 = 1
                THEN Container(body, pairs[(m + 1) \div 2].bbox, pairs[(m + 1) \div 2].index)
                ELSE Label(pairs[m \div 2].bbox, pairs[m \div 2].index, Len(d) + m - 1)]

\* the value line 101 writes on the item at 0-based position `index`
IndexAttribute(index) == ToString(index)

\* line 101: every item's element gets the item's position (the last one,
\* were an element listed twice)
TagElements(d, its) ==
    LET position == [e \in {its[k].element : k \in 1..Len(its)} |->
                        CHOOSE k \in 1..Len(its) :
                            /\ its[k].element = e
                            /\ \A k2 \in (k + 1)..Len(its) : its[k2].element # e]
    IN  [i \in 1..Len(d) |->
            IF i \in DOMAIN position
            THEN SetAttribute(d[i], ELEMENT_INDEX, IndexAttribute(position[i] - 1))
            ELSE d[i]]

NumOverlays(d) == Len(QuerySelectorAllAttr(d, RECT_INDEX))

\* markPage(), lines 7-157; the stages are bound one after the other, as the
\* script's statements are
MarkPage ==
    /\ NumOverlays(doc) <= MaxStaleOverlays
    /\ \E found \in { Scan(doc, scrollY) } :
       \E outermost \in { RemoveNested(doc, found) } :
       \E selected \in { Prioritize(outermost) } :
       \E tagged \in { TagElements(doc, selected) } :
          /\ doc' = AppendOverlays(tagged, selected)
          /\ scanned' = found
          /\ items' = selected
          /\ ret' = [k \in 1..Len(selected) |-> k - 1]
    /\ lastOp' = "markPage"
    /\ again' = FALSE
    /\ UNCHANGED scrollY

(* ------------------------------- cleanup ------------------------------- *)

\* node i is one of the nodes of `gone` or inside one
RECURSIVE InSubtree(_, _, _)
InSubtree(d, gone, i) ==
    IF i = 0 THEN FALSE
    ELSE IF i \in gone THEN TRUE
    ELSE InSubtree(d, gone, d[i].parent)

\* el.remove() for every node in the list: the nodes and their subtrees
\* leave the document, the others keep their order
RemoveNodes(d, list) ==
    LET gone == {list[k] : k \in 1..Len(list)}
        Stays(i) == ~InSubtree(d, gone, i)
        keep == SelectSeq([i \in 1..Len(d) |-> i], Stays)
        parents == {d[keep[k]].parent : k \in 1..Len(keep)} \ {0}
        newIndex == [p \in parents |-> CHOOSE k \in 1..Len(keep) : keep[k] = p]
    IN  [k \in 1..Len(keep) |->
            [d[keep[k]] EXCEPT !.parent = IF @ = 0 THEN 0 ELSE newIndex[@]]]

\* mutant of RemoveAttributeFrom: only the first node of the list
RemoveAttributeFromFirst(d, list, name) ==
    [i \in 1..Len(d) |->
        IF list # << >> /\ i = list[1] THEN RemoveAttribute(d[i], name) ELSE d[i]]

\* el.removeAttribute(name) for every node in the list
RemoveAttributeFrom(d, list, name) ==
    LET hit == {list[k] : k \in 1..Len(list)}
    IN  [i \in 1..Len(d) |-> IF i \in hit THEN RemoveAttribute(d[i], name) ELSE d[i]]

\* part_000 lines 3-5
RemoveOverlays(d) == RemoveNodes(d, QuerySelectorAllAttr(d, RECT_INDEX))

\* part_000 lines 8-10
RemoveTagsOfRects(d) ==
    RemoveAttributeFrom(d, QuerySelectorAllAttr(d, MISSPELLED_ELEMENT_INDEX), ELEMENT_INDEX)

\* part_000 lines 15-17
RemoveTags(d) ==
    RemoveAttributeFrom(d, QuerySelectorAllAttr(d, ELEMENT_INDEX), ELEMENT_INDEX)

ClearRectsAndTags ==
    /\ \E stripped \in { RemoveOverlays(doc) } : doc' = RemoveTagsOfRects(stripped)
    /\ lastOp' = "clearRectsAndTags"
    /\ again' = (lastOp = "clearRectsAndTags")
    /\ scanned' = << >> /\ items' = << >> /\ ret' = << >>
    /\ UNCHANGED scrollY

ClearElements ==
    /\ doc' = RemoveTags(doc)
    /\ lastOp' = "clearElements"
    /\ again' = (lastOp = "clearElements")
    /\ scanned' = << >> /\ items' = << >> /\ ret' = << >>
    /\ UNCHANGED scrollY

(* --------------------------- the host's page --------------------------- *)

\* the user or the agent scrolls the window between two script calls
Scroll ==
    /\ \E sy \in {0, ScrollStep} :
          /\ sy # scrollY
          /\ scrollY' = sy
    /\ lastOp' = "scroll"
    /\ again' = FALSE
    /\ scanned' = << >> /\ items' = << >> /\ ret' = << >>
    /\ UNCHANGED doc

DocHeight == ViewportHeight + ScrollStep

PageNode(tag, attrs, parent, boxes) ==
    Node(tag, attrs, parent, "static", "inherit", ZAuto, boxes)

Html == PageNode("HTML", NoAttrs, 0, << Box(0, 0, ViewportWidth, DocHeight) >>)
BodyNode == PageNode("BODY", NoAttrs, 1, << Box(0, 0, ViewportWidth, DocHeight) >>)

\* what a free element of a small page may be, and how it is laid out:
\* a button in the first row; a button cut by the left edge, under the area
\* floor once clipped; an anchor of three line boxes, the first reaching into
\* the first-row button without covering its center, the third empty and
\* inside the second; a span with a button role, inside the first-row
\* button's box; a dialog covering the window
Shapes ==
    { [tagName |-> "BUTTON", attrs |-> NoAttrs, boxes |-> << Box(10, 2, 10, 4) >>],
      [tagName |-> "BUTTON", attrs |-> NoAttrs, boxes |-> << Box(0 - 4, 30, 10, 3) >>],
      [tagName |-> "A", attrs |-> NoAttrs,
       boxes |-> << Box(16, 3, 6, 2), Box(40, 22, 5, 4), Box(42, 23, 0, 2) >>],
      [tagName |-> "SPAN", attrs |-> ("role" :> "button"),
       boxes |-> << Box(11, 3, 8, 3) >>],
      [tagName |-> "DIV", attrs |-> ("role" :> "dialog"),
       boxes |-> << Box(0, 0, ViewportWidth, DocHeight) >>] }

\* parents that keep the node sequence in document (pre-)order: the previous
\* node or one of its ancestors, from the body down
RECURSIVE AncestorsOrSelf(_, _)
AncestorsOrSelf(d, i) ==
    IF i = 0 THEN {} ELSE {i} \cup AncestorsOrSelf(d, d[i].parent)

RECURSIVE SmallPagesOf(_)
SmallPagesOf(n) ==
    IF n = 0 THEN { <<Html, BodyNode>> }
    ELSE UNION { { d \o << PageNode(sh.tagName, sh.attrs, p, sh.boxes) >> :
                     sh \in Shapes, p \in AncestorsOrSelf(d, Len(d)) \ {1} } :
                 d \in SmallPagesOf(n - 1) }

SmallPages == SmallPagesOf(NumSmall)

\* a dense page: a small section, `deep` buttons inside it and `shallow`
\* buttons beside it; the buttons lie on a grid that fits the window and
\* come in six widths, all of them larger than the section
GridColumns == ViewportWidth \div 12
GridCell(c, w) == Box(12 * (c % GridColumns) + 1, 7 * (c \div GridColumns) + 1, w, 5)

ButtonWidth(c) == 5 + (c % 6)

DensePage(deep, shallow, sectionAttrs) ==
    << Html, BodyNode,
       PageNode("DIV", sectionAttrs, 2, << Box(0, ViewportHeight - 10, 4, 5) >>) >>
    \o [k \in 1..deep |->
           PageNode("BUTTON", NoAttrs, 3, << GridCell(k - 1, ButtonWidth(k - 1)) >>)]
    \o [k \in 1..shallow |->
           PageNode("BUTTON", NoAttrs, 2,
                    << GridCell(deep + k - 1, ButtonWidth(deep + k - 1)) >>)]

DensePages ==
    { DensePage(deep, shallow, sectionAttrs) :
        deep \in 0..MaxDeep,
        shallow \in MAX_ELEMENTS..(MAX_ELEMENTS + CapExtra),
        sectionAttrs \in { NoAttrs, "role" :> "button" } }

Init ==
    /\ doc \in SmallPages \cup DensePages
    /\ scrollY = 0
    /\ lastOp = "load"
    /\ again = FALSE
    /\ scanned = << >>
    /\ items = << >>
    /\ ret = << >>

Next == MarkPage \/ ClearRectsAndTags \/ ClearElements \/ Scroll

Spec == Init /\ [][Next]_vars

(* ------------------------------ properties ----------------------------- *)

ElementsOf(its) == { its[k].element : k \in 1..Len(its) }

Tagged(d) == { i \in 1..Len(d) : HasAttribute(d[i], ELEMENT_INDEX) }

OverlayBoxes(d) == { i \in 1..Len(d) : HasAttribute(d[i], RECT_INDEX) }

\* the overlay boxes and the labels inside them
OverlayNodes(d) ==
    LET boxes == OverlayBoxes(d)
    IN  { i \in 1..Len(d) : InSubtree(d, boxes, i) }

\* the element the hit test finds at the center of a client rectangle
AtCenter(d, sy, bb) == ElementFromPoint(d, sy, 2 * bb.left + bb.width, 2 * bb.top + bb.height)

ClientRectSet(d, sy, i) == { GetClientRects(d, sy, i)[k] : k \in 1..Len(d[i].boxes) }

\* every client rectangle of i has its center under an element that is neither
\* i nor inside i
Covered(d, sy, i) ==
    /\ d[i].boxes # << >>
    /\ \A bb \in ClientRectSet(d, sy, i) :
          LET top == AtCenter(d, sy, bb)
          IN  top # 0 /\ ~NodeContains(d, i, top)

\* x comes before y when the candidates are ranked for the cap
RanksBefore(x, y) ==
    \/ x.depth < y.depth
    \/ x.depth = y.depth /\ x.area > y.area
    \/ x.depth = y.depth /\ x.area = y.area /\ x.element < y.element

\* the candidates of a scan that no other candidate strictly contains
Outermost(d, its) ==
    LET els == ElementsOf(its)
    IN  { k \in 1..Len(its) :
            \A a \in AncestorsOrSelf(d, d[its[k].element].parent) : a \notin els }

\* C1: after clearRectsAndTags no element carries the index attribute and no
\* node carries the rectangle-index attribute
RoundTrip ==
    lastOp = "clearRectsAndTags" => Tagged(doc) = {} /\ OverlayBoxes(doc) = {}

\* C2: after markPage returned 0..N-1, exactly N elements carry the index
\* attribute, their values are the strings of 0..N-1 without duplicates, and
\* the element at position k of the selected list carries k
Bijection ==
    lastOp = "markPage" =>
        LET tagged == Tagged(doc)
        IN  /\ Cardinality(tagged) = Len(ret)
            /\ { doc[i].attrs[ELEMENT_INDEX] : i \in tagged }
                 = { ToString(ret[k]) : k \in 1..Len(ret) }
            /\ \A i, j \in tagged :
                  i # j => doc[i].attrs[ELEMENT_INDEX] # doc[j].attrs[ELEMENT_INDEX]
            /\ \A k \in 1..Len(items) :
                  /\ items[k].element \in tagged
                  /\ doc[items[k].element].attrs[ELEMENT_INDEX] = ToString(k - 1)

\* C3: no selected element strictly contains another selected element, and a
\* candidate that another candidate of the scan strictly contains is never
\* selected, whether or not the containing candidate is selected
NoNesting ==
    lastOp = "markPage" =>
        LET selected == ElementsOf(items)
            candidates == ElementsOf(scanned)
        IN  /\ \A a, b \in selected : a # b => ~NodeContains(doc, a, b)
            /\ \A x, y \in candidates :
                  (x # y /\ NodeContains(doc, y, x)) => x \notin selected

\* a candidate was dropped as nested although the cap cut its container
NestedUnderCutContainer ==
    /\ lastOp = "markPage"
    /\ LET selected == ElementsOf(items)
           candidates == ElementsOf(scanned)
       IN  \E x, y \in candidates \ selected :
              /\ x # y /\ NodeContains(doc, y, x)
              /\ \A z \in candidates : z = y \/ ~NodeContains(doc, z, y)

\* C4: after markPage at most MAX_ELEMENTS elements of the document carry the
\* index attribute and the returned list has at most MAX_ELEMENTS entries
Cap ==
    lastOp = "markPage" =>
        /\ Cardinality(Tagged(doc)) <= MAX_ELEMENTS
        /\ Len(ret) <= MAX_ELEMENTS

\* C5: when more than MAX_ELEMENTS candidates are left after nested ones are
\* removed, the selected list is the first MAX_ELEMENTS of them by ascending
\* depth, then descending area, then document order
CapPrioritization ==
    lastOp = "markPage" =>
        LET outer == Outermost(doc, scanned)
            selected == ElementsOf(items)
            cut == { j \in outer : scanned[j].element \notin selected }
        IN  Cardinality(outer) > MAX_ELEMENTS =>
               /\ Len(items) = MAX_ELEMENTS
               /\ \A k \in 1..Len(items) : \E j \in outer : scanned[j] = items[k]
               /\ \A k \in 1..(Len(items) - 1) : RanksBefore(items[k], items[k + 1])
               /\ \A j \in cut : \A k \in 1..Len(items) :
                     /\ RanksBefore(items[k], scanned[j])
                     /\ items[k].depth = scanned[j].depth => items[k].area >= scanned[j].area

\* the cap cut a candidate that ties in depth and area with a selected one,
\* and one that lies deeper than every selected one
CutOnTieAndOnDepth ==
    /\ lastOp = "markPage"
    /\ LET outer == Outermost(doc, scanned)
           selected == ElementsOf(items)
           cut == { j \in outer : scanned[j].element \notin selected }
       IN  /\ \E j \in cut : \E k \in 1..Len(items) :
                 items[k].depth = scanned[j].depth /\ items[k].area = scanned[j].area
           /\ \E j \in cut : \A k \in 1..Len(items) : items[k].depth < scanned[j].depth

\* C6: every selected candidate has a visible rectangle, all its rectangles
\* lie in the window with positive clipped width and height, and their areas
\* sum to at least MIN_AREA
AreaFloor ==
    lastOp = "markPage" =>
        \A k \in 1..Len(items) :
            LET rects == items[k].rects
            IN  /\ Len(rects) >= 1
                /\ \A j \in 1..Len(rects) :
                      /\ rects[j].width > 0
                      /\ rects[j].height > 0
                      /\ rects[j].width = rects[j].right - rects[j].left
                      /\ rects[j].height = rects[j].bottom - rects[j].top
                      /\ rects[j].left >= 0 /\ rects[j].right <= ViewportWidth
                      /\ rects[j].top >= 0 /\ rects[j].bottom <= ViewportHeight
                /\ TotalArea(rects) >= MIN_AREA
                /\ items[k].area = TotalArea(rects)

\* a candidate of exactly MIN_AREA was selected, and an interactive element
\* with a rectangle in view was not
SelectedAtTheFloor ==
    /\ lastOp = "markPage"
    /\ \E k \in 1..Len(items) : items[k].area = MIN_AREA
    /\ LET candidates == ElementsOf(scanned)
       IN  \E i \in 1..Len(doc) :
              /\ isInteractive(doc[i])
              /\ i \notin candidates
              /\ \E bb \in ClientRectSet(doc, scrollY, i) :
                    bb.width > 0 /\ AtCenter(doc, scrollY, bb) = i

\* C7: a cleanup run right after the same cleanup leaves the document as it
\* is, and so does a cleanup of a document without overlays and index tags
CleanupIdempotent ==
    [][ /\ (lastOp' = "clearElements" /\ lastOp = "clearElements") => doc' = doc
        /\ (lastOp' = "clearRectsAndTags" /\ lastOp = "clearRectsAndTags") => doc' = doc
        /\ (lastOp' \in {"clearElements", "clearRectsAndTags"}
              /\ Tagged(doc) = {} /\ OverlayBoxes(doc) = {}) => doc' = doc ]_vars

\* clearRectsAndTags ran twice in a row on a page that had been marked
ClearedTwice ==
    /\ lastOp = "clearRectsAndTags"
    /\ again
    /\ Tagged(doc) # {}

\* what C8 says of a markPage step from document d at scroll offset sy to
\* document e with the selected list its
OcclusionStep(d, sy, e, its) ==
    LET selected == ElementsOf(its)
    IN  /\ \A k \in 1..Len(its) : \A j \in 1..Len(its[k].rects) :
              \E bb \in ClientRectSet(d, sy, its[k].element) :
                 /\ ClipRect(bb) = its[k].rects[j]
                 /\ NodeContains(d, its[k].element, AtCenter(d, sy, bb))
        /\ \A i \in 1..Len(d) :
              (isInteractive(d[i]) /\ Covered(d, sy, i)) =>
                 /\ i \notin selected
                 /\ e[i].attrs = d[i].attrs

\* C8: markPage keeps a rectangle only if the hit test at the center of the
\* client rectangle it was clipped from finds the element or a descendant,
\* and an interactive element whose rectangles are all covered at the center
\* by other elements is not selected and is not given the index attribute
Occlusion ==
    [][ lastOp' = "markPage" => OcclusionStep(doc, scrollY, doc', items') ]_vars

\* markPage ran on a page with an interactive element under something else
MarkedWithCoveredElement ==
    /\ lastOp = "markPage"
    /\ items # << >>
    /\ LET selected == ElementsOf(items)
       IN  \E i \in 1..Len(doc) :
              /\ isInteractive(doc[i])
              /\ Covered(doc, scrollY, i)
              /\ i \notin selected

\* the index a rectangle-index attribute value stands for
IndexOfValue(v) == CHOOSE k \in 0..MAX_ELEMENTS : ToString(k) = v

\* what C9 says of a markPage step from document d to document e with the
\* selected list its
OverlayStep(d, e, its) ==
    LET new == { i \in OverlayBoxes(e) : i > Len(d) }
    IN  /\ Len(e) >= Len(d)
        /\ OverlayBoxes(e) = OverlayBoxes(d) \cup new
        /\ \A k \in 1..Len(its) :
              LET mine == { i \in new : e[i].attrs[RECT_INDEX] = ToString(k - 1) }
                  rects == its[k].rects
              IN  /\ Cardinality(mine) = Len(rects)
                  /\ \A i \in mine :
                        /\ e[i].attrs[RECT_INDEX] = e[its[k].element].attrs[ELEMENT_INDEX]
                        /\ \E j \in 1..Len(rects) :
                              e[i].boxes = << Box(rects[j].left, rects[j].top,
                                                  rects[j].width, rects[j].height) >>
        /\ \A i \in new : \E k \in 1..Len(its) : e[i].attrs[RECT_INDEX] = ToString(k - 1)
        /\ \A i \in new : \A j \in new :
              (j = i + 2) => IndexOfValue(e[i].attrs[RECT_INDEX])
                               <= IndexOfValue(e[j].attrs[RECT_INDEX])
        /\ \A i \in (Len(d) + 1)..Len(e) : i \in new \/ (i - 1) \in new

\* C9: markPage appends, after the nodes already there, one overlay box per
\* rectangle of every selected candidate, placed on that rectangle, with the
\* rectangle-index attribute equal to the index attribute of the element it
\* annotates, in ascending index order
OverlayOutput ==
    [][ lastOp' = "markPage" => OverlayStep(doc, doc', items') ]_vars

\* markPage selected several candidates, one of them with two rectangles
MarkedManyRectangles ==
    /\ lastOp = "markPage"
    /\ Len(items) >= 2
    /\ \E k \in 1..Len(items) : Len(items[k].rects) >= 2
    /\ Cardinality(OverlayBoxes(doc)) >= 3

\* C10: no overlay box or label ever carries the index attribute or is a
\* candidate of a scan, and the hit test at the center of a page element's
\* client rectangle never finds an overlay box or label
OverlaysTransparent ==
    LET overlays == OverlayNodes(doc)
    IN  /\ Tagged(doc) \cap overlays = {}
        /\ lastOp = "markPage" =>
              /\ ElementsOf(scanned) \cap overlays = {}
              /\ ElementsOf(items) \cap overlays = {}
        /\ \A i \in 1..Len(doc) : i \notin overlays =>
              \A bb \in ClientRectSet(doc, scrollY, i) :
                 AtCenter(doc, scrollY, bb) \notin overlays

\* twice the center of a client rectangle lies in a box
CenterInBox(bb, b) ==
    /\ 2 * b.left <= 2 * bb.left + bb.width
    /\ 2 * bb.left + bb.width < 2 * (b.left + b.width)
    /\ 2 * b.top <= 2 * bb.top + bb.height
    /\ 2 * bb.top + bb.height < 2 * (b.top + b.height)

\* markPage ran again and selected an element whose rectangle center lies
\* under an overlay box left by the earlier call
MarkedUnderStaleOverlay ==
    /\ lastOp = "markPage"
    /\ LET boxes == OverlayBoxes(doc)
       IN  \E k \in 1..Len(items) :
              \E bb \in ClientRectSet(doc, scrollY, items[k].element) :
                 Cardinality({ o \in boxes : CenterInBox(bb, doc[o].boxes[1]) }) >= 2

====
